---- MODULE Spec2Model ----
(***************************************************************************)
(* A model of magic-nix-cache: the binary-cache protocol handlers          *)
(* (binary_cache.rs), the error-to-status mapping (error.rs) and the       *)
(* replication worker with its queue, enqueue and shutdown (gha.rs).       *)
(*                                                                         *)
(* Strings are modelled as sequences of tokens: "." is the dot character   *)
(* and every other token is a maximal non-empty run of characters that     *)
(* holds no dot, so no two such tokens are ever adjacent in a path.        *)
(* A handler is cut into steps at its await points on the Blob Backend and *)
(* on the locks; what runs between two await points is one action.         *)
(***************************************************************************)
EXTENDS Naturals, Integers, Sequences, FiniteSets, TLC

(* ------------------------------ bounds -------------------------------- *)

\* longest request path, in tokens
MaxPathLen == 3
\* protocol requests accepted in one behaviour
MaxRequests == 3
\* protocol handlers in flight at the same time
NumTasks == 2
\* store paths of the Artifact Store
NumPaths == 2
\* chunks of a path's nar stream
NarChunks == 2
\* calls of enqueue_paths and shutdown in one behaviour
MaxCalls == 3
\* such calls in flight at the same time
NumCallers == 2
\* requests and calls together in one behaviour of the handlers with the worker
MaxOps == 3

(* ----------------------------- constants ------------------------------ *)

OK == 200
TEMPORARY_REDIRECT == 307
BAD_REQUEST == 400
NOT_FOUND == 404
IM_A_TEAPOT == 418
TOO_MANY_REQUESTS == 429
INTERNAL_SERVER_ERROR == 500

(* ------------------------------ strings ------------------------------- *)

Dot == "."
Runs == {"a", "narinfo"}
Symbols == Runs \cup {Dot}

WellTokenised(s) ==
    \A i \in 1..(Len(s) - 1) : s[i] = Dot \/ s[i + 1] = Dot

SeqsUpTo(n) == UNION {[1..k -> Symbols] : k \in 1..n}

\* the paths a narinfo route is called with
Paths == {s \in SeqsUpTo(MaxPathLen) : WellTokenised(s)}

\* the paths a nar route is called with; the second is also a narinfo key,
\* the two routes share the Blob Backend's one key space
NarPaths == {<<"a", Dot, "nar">>, <<"a", Dot, "narinfo">>}

Bodies == {<<"B1">>, <<"B2">>}

Upstreams == {"None", "https://up.example"}

\* the index of the first dot of s, 0 when there is none
RECURSIVE FirstDot(_, _)
FirstDot(s, i) ==
    IF i > Len(s) THEN 0
    ELSE IF s[i] = Dot THEN i
    ELSE FirstDot(s, i + 1)

\* path.splitn(2, '.').collect()
SplitN2(path) ==
    LET d == FirstDot(path, 1) IN
    IF d = 0 THEN <<path>>
    ELSE <<SubSeq(path, 1, d - 1), SubSeq(path, d + 1, Len(path))>>

\* format!("{}.narinfo", store_path_hash)
NarinfoKey(store_path_hash) == store_path_hash \o <<Dot, "narinfo">>


(* ------------------------------- errors ------------------------------- *)

\* enum Error, the variants the handlers and the worker produce
Error(tag, kind) == [tag |-> tag, kind |-> kind]
NoError == Error("None", "None")
ErrNotFound == Error("NotFound", "None")
ErrBadRequest == Error("BadRequest", "None")
ErrGHADisabled == Error("GHADisabled", "None")
ErrIO == Error("IO", "None")
ErrInternal == Error("Internal", "None")
\* From<opendal::Error>: the backend's error with its kind
ErrApi(kind) == Error("Api", kind)

\* the ways a Blob Backend operation fails besides the key being absent
FailureKinds == {"RateLimited", "Unexpected"}

\* impl IntoResponse for Error: the status code
StatusCode(err) ==
    CASE err.tag = "Api" /\ err.kind = "RateLimited" -> TOO_MANY_REQUESTS
      [] err.tag = "Api" /\ err.kind = "NotFound" -> NOT_FOUND
      [] err.tag = "Api" /\ err.kind \notin {"RateLimited", "NotFound"} -> IM_A_TEAPOT
      [] err.tag = "NotFound" -> NOT_FOUND
      [] err.tag = "BadRequest" -> BAD_REQUEST
      [] OTHER -> INTERNAL_SERVER_ERROR

NoBody == <<>>
NoLocation == <<>>

\* Err(e) of a handler, through into_response
ErrorResponse(err) ==
    [status |-> StatusCode(err), body |-> NoBody, location |-> NoLocation, err |-> err]
\* Ok(content.into_response()) and Ok(())
OkResponse(content) ==
    [status |-> OK, body |-> content, location |-> NoLocation, err |-> NoError]
\* Redirect::temporary(location)
RedirectResponse(location) ==
    [status |-> TEMPORARY_REDIRECT, body |-> NoBody, location |-> location, err |-> NoError]
NoResponse == [status |-> 0, body |-> NoBody, location |-> NoLocation, err |-> NoError]

(* ------------------------------- state -------------------------------- *)

VARIABLES
    gha_enabled,      \* state.gha_cache is Some
    upstream,         \* state.upstream, "None" or the upstream's base URL
    backend,          \* the Blob Backend: a function from the keys it holds to their content
    negative_cache,   \* state.narinfo_negative_cache
    metrics,          \* state.metrics, the counters
    tasks,            \* the protocol handlers in flight
    started,          \* the number of requests accepted so far
    acked,            \* history: per route and key, the body of the last PUT answered Ok
    queue,            \* the unbounded channel: the requests sent and not yet received
    rx_open,          \* channel_rx has not been dropped
    worker,           \* the worker task: where it is, the path and the nar it holds
    done,             \* the worker's set `done`
    worker_result,    \* GhaCache.worker_result: "Some" join handle or "None"
    lock,             \* the holder of worker_result's write lock, 0 when free
    callers,          \* the calls of enqueue_paths and shutdown in flight
    calls,            \* the number of calls made so far
    sent,             \* history: the requests the channel accepted, in order
    attempts,         \* history: the paths of the Upload requests received, in order
    runs,             \* history: per path, how often upload_path was entered
    failed            \* history: the paths whose upload_path returned Err

httpVars == <<negative_cache, tasks, started, acked>>

workerVars == <<queue, rx_open, worker, done, worker_result, lock, callers, calls,
                sent, attempts, runs, failed>>

vars == <<gha_enabled, upstream, backend, metrics, httpVars, workerVars>>

Tasks == 1..NumTasks

MetricNames ==
    {"narinfos_served", "narinfos_sent_upstream", "narinfos_negative_cache_hits",
     "narinfos_negative_cache_misses", "narinfos_uploaded",
     "nars_served", "nars_sent_upstream", "nars_uploaded"}

\* counter.incr() on each of the counters named
Incr(m, names) == [n \in MetricNames |-> IF n \in names THEN m[n] + 1 ELSE m[n]]

Holds(key) == key \in DOMAIN backend

\* the Blob Backend after a finalized write of content under key
Written(b, key, content) ==
    [k \in DOMAIN b \cup {key} |-> IF k = key THEN content ELSE b[k]]

IdleTask ==
    [pc |-> "idle", op |-> "none", path |-> <<>>, body |-> NoBody,
     hash |-> <<>>, key |-> <<>>, queried |-> FALSE, fault |-> "None",
     after_put |-> FALSE, guard |-> "none", resp |-> NoResponse]

\* history: a PUT of this route to this key was answered Ok and the key still
\* holds what it wrote
Acked(route, key) ==
    /\ <<route, key>> \in DOMAIN acked
    /\ Holds(key)
    /\ backend[key] = acked[<<route, key>>]

Free(t) == tasks[t].pc \in {"idle", "done"}

\* narinfo_negative_cache.read().await is granted to t: no other handler holds
\* the write guard
ReadGranted(t) == \A u \in Tasks \ {t} : tasks[u].guard # "write"

\* narinfo_negative_cache.write().await is granted to t: no other handler holds
\* a guard
WriteGranted(t) == \A u \in Tasks \ {t} : tasks[u].guard = "none"

\* a request is accepted by the first free handler slot
CanStart(t) ==
    /\ Free(t)
    /\ \A u \in Tasks : u < t => ~Free(u)
    /\ started < MaxRequests

\* the handler is entered with its extractors
Begin(op, path, body) == [IdleTask EXCEPT !.op = op, !.path = path, !.body = body]
\* the handler returns resp
Return(task, resp) == [task EXCEPT !.pc = "done", !.resp = resp]
\* the handler suspends at the await point pc
Await(task, pc) == [task EXCEPT !.pc = pc]

\* task t moves to `task`; a response returned by an earlier step has been
\* delivered to its client, so a returned handler is on view for one step
Step(t, task) ==
    [u \in Tasks |-> IF u = t THEN task
                     ELSE IF tasks[u].pc = "done" THEN IdleTask
                     ELSE tasks[u]]

(* --------------------------- Artifact Store ---------------------------- *)

PathHashes == <<"pA", "pB", "pC", "pD">>
NarHashes == <<"nA", "nB", "nC", "nD">>
ChunkNames == <<"c1", "c2", "c3">>

\* a store path is named by its hash component
StorePaths == {PathHashes[i] : i \in 1..NumPaths}

Index(p) == CHOOSE i \in 1..NumPaths : PathHashes[i] = p

\* the store's reference graph: each path refers to the next one
References(p) == {q \in StorePaths : Index(q) = Index(p) + 1}

\* store.query_path_info(path): the ValidPathInfo fields the pipeline reads
PathInfo(p) == [path |-> p, nar_hash |-> NarHashes[Index(p)],
                nar_size |-> NarChunks, references |-> References(p)]

\* store.nar_from_path(path): the chunks of the stream
NarStream(p) == [i \in 1..NarChunks |-> <<p, ChunkNames[i]>>]

\* store.compute_fs_closure_multi(store_paths, ..): the transitive closure
RECURSIVE Closure(_)
Closure(ps) ==
    LET more == ps \cup UNION {References(p) : p \in ps} IN
    IF more = ps THEN ps ELSE Closure(more)

(* ------------------------------- worker -------------------------------- *)

Callers == 1..NumCallers

Upload(p) == [type |-> "Upload", path |-> p]
Shutdown == [type |-> "Shutdown", path |-> "-"]

IdleWorker == [pc |-> "recv", path |-> "-", nar |-> <<>>, next |-> 0]

IdleCaller == [pc |-> "idle", op |-> "none", paths |-> {}, closure |-> {}, todo |-> {},
               sent |-> <<>>, joined |-> FALSE, result |-> "None"]

Init ==
    /\ gha_enabled \in BOOLEAN
    /\ upstream \in Upstreams
    /\ backend = <<>>
    /\ negative_cache = {}
    /\ metrics = [n \in MetricNames |-> 0]
    /\ tasks = [t \in Tasks |-> IdleTask]
    /\ started = 0
    /\ acked = <<>>
    /\ queue = <<>>
    /\ rx_open = TRUE
    /\ worker = IdleWorker
    /\ done = {}
    /\ worker_result = "Some"
    /\ lock = 0
    /\ callers = [c \in Callers |-> IdleCaller]
    /\ calls = 0
    /\ sent = <<>>
    /\ attempts = <<>>
    /\ runs = [p \in StorePaths |-> 0]
    /\ failed = {}


(* ------------------------- Blob Backend calls -------------------------- *)

Outcome(ok, content, kind) == [ok |-> ok, content |-> content, kind |-> kind]

\* api.read(key).await: the content when the key is held, the NotFound error
\* when it is not, and in both cases possibly a failure of the backend
ReadOutcomes(key) ==
    (IF Holds(key) THEN {Outcome(TRUE, backend[key], "None")}
                   ELSE {Outcome(FALSE, NoBody, "NotFound")})
    \cup {Outcome(FALSE, NoBody, k) : k \in FailureKinds}

\* api.reader(path).await: as read, except that a reader may be handed out
\* before the backend is asked, so that an absent key shows only when the
\* stream is opened
ReaderOutcomes(key) ==
    {Outcome(TRUE, NoBody, "None")}
    \cup (IF Holds(key) THEN {} ELSE {Outcome(FALSE, NoBody, "NotFound")})
    \cup {Outcome(FALSE, NoBody, k) : k \in FailureKinds}

\* an operation on an open writer (writer(), copy, close): it succeeds or fails
WriteOutcomes == {Outcome(TRUE, NoBody, "None")}
                 \cup {Outcome(FALSE, NoBody, k) : k \in FailureKinds}

(* ------------------------- protocol handlers --------------------------- *)

\* mutant: the redirect of get_nar, with its /nar/ prefix
pull_through_nar_prefix(path) ==
    IF upstream # "None"
    THEN RedirectResponse(<<upstream, "/nar/">> \o path)
    ELSE ErrorResponse(ErrNotFound)

\* fn pull_through
pull_through(path) ==
    IF upstream # "None"
    THEN RedirectResponse(<<upstream, "/">> \o path)
    ELSE ErrorResponse(ErrNotFound)

\* mutant: the suffix is not compared
Malformed_no_suffix_check(path) ==
    LET components == SplitN2(path) IN
    Len(components) # 2

\* the path is not {hash}.narinfo: components.len() != 2 || components[1] != "narinfo"
Malformed(path) ==
    LET components == SplitN2(path) IN
    \/ Len(components) # 2
    \/ components[2] # <<"narinfo">>

\* mutant: the write guard is taken before the backend is read
get_narinfo_locks_first(t, path) ==
    /\ CanStart(t)
    /\ started' = started + 1
    /\ LET task == Begin("get_narinfo", path, NoBody) IN
       IF Malformed(path)
       THEN /\ tasks' = Step(t, Return(task, ErrorResponse(ErrNotFound)))
            /\ UNCHANGED <<negative_cache, metrics>>
       ELSE LET store_path_hash == SplitN2(path)[1]
                parsed == [task EXCEPT !.hash = store_path_hash,
                                       !.key = NarinfoKey(store_path_hash),
                                       !.after_put =
                                           Acked("narinfo", NarinfoKey(store_path_hash))]
            IN
            /\ WriteGranted(t)
            /\ IF store_path_hash \in negative_cache
               THEN /\ metrics' = Incr(metrics, {"narinfos_sent_upstream",
                                                 "narinfos_negative_cache_hits"})
                    /\ tasks' = Step(t, Return(parsed, pull_through(path)))
                    /\ UNCHANGED negative_cache
               ELSE /\ tasks' = Step(t,
                                   Await([parsed EXCEPT !.guard = "write"],
                                         IF gha_enabled THEN "gn_read" ELSE "gn_insert"))
                    /\ UNCHANGED <<negative_cache, metrics>>
    /\ UNCHANGED <<gha_enabled, upstream, backend, acked>>
    /\ UNCHANGED workerVars

\* get_narinfo up to its first await on the Blob Backend
get_narinfo(t, path) ==
    /\ CanStart(t)
    /\ started' = started + 1
    /\ LET task == Begin("get_narinfo", path, NoBody) IN
       IF Malformed(path)
       THEN /\ tasks' = Step(t, Return(task, ErrorResponse(ErrNotFound)))
            /\ UNCHANGED <<negative_cache, metrics>>
       ELSE LET store_path_hash == SplitN2(path)[1]
                parsed == [task EXCEPT !.hash = store_path_hash,
                                       !.key = NarinfoKey(store_path_hash),
                                       !.after_put =
                                           Acked("narinfo", NarinfoKey(store_path_hash))]
            IN
            /\ ReadGranted(t)
            /\ IF store_path_hash \in negative_cache
               THEN /\ metrics' = Incr(metrics, {"narinfos_sent_upstream",
                                                 "narinfos_negative_cache_hits"})
                    /\ tasks' = Step(t, Return(parsed, pull_through(path)))
                    /\ UNCHANGED negative_cache
               ELSE /\ tasks' = Step(t,
                                   Await(parsed,
                                         IF gha_enabled THEN "gn_read" ELSE "gn_insert"))
                    /\ UNCHANGED <<negative_cache, metrics>>
    /\ UNCHANGED <<gha_enabled, upstream, backend, acked>>
    /\ UNCHANGED workerVars

\* gha_cache.api.read(&key).await returns: served on Ok, any Err is a miss
get_narinfo_read(t) ==
    /\ tasks[t].pc = "gn_read"
    /\ \E out \in ReadOutcomes(tasks[t].key) :
         LET asked == [tasks[t] EXCEPT !.queried = TRUE, !.fault = out.kind] IN
         IF out.ok
         THEN /\ metrics' = Incr(metrics, {"narinfos_served"})
              /\ tasks' = Step(t, Return(asked, OkResponse(out.content)))
         ELSE /\ tasks' = Step(t, Await(asked, "gn_insert"))
              /\ UNCHANGED metrics
    /\ UNCHANGED <<gha_enabled, upstream, backend, negative_cache, started, acked>>
    /\ UNCHANGED workerVars

\* the write lock is granted: insert, count, pull through
get_narinfo_insert(t) ==
    /\ tasks[t].pc = "gn_insert"
    /\ WriteGranted(t)
    /\ negative_cache' = negative_cache \cup {tasks[t].hash}
    /\ metrics' = Incr(metrics, {"narinfos_sent_upstream", "narinfos_negative_cache_misses"})
    /\ tasks' = Step(t, Return(tasks[t], pull_through(tasks[t].path)))
    /\ UNCHANGED <<gha_enabled, upstream, backend, started, acked>>
    /\ UNCHANGED workerVars

\* put_narinfo up to its first await on the Blob Backend
put_narinfo(t, path, body) ==
    /\ CanStart(t)
    /\ started' = started + 1
    /\ LET task == Begin("put_narinfo", path, body) IN
       IF Malformed(path)
       THEN tasks' = Step(t, Return(task, ErrorResponse(ErrBadRequest)))
       ELSE IF ~gha_enabled
       THEN tasks' = Step(t, Return(task, ErrorResponse(ErrGHADisabled)))
       ELSE LET store_path_hash == SplitN2(path)[1] IN
            tasks' = Step(t,
                        Await([task EXCEPT !.hash = store_path_hash,
                                           !.key = NarinfoKey(store_path_hash)],
                              "pn_writer"))
    /\ UNCHANGED <<gha_enabled, upstream, backend, negative_cache, metrics, acked>>
    /\ UNCHANGED workerVars

\* api.writer(&key).await? returns: an opendal error becomes Error::Api
OpenWriter(t, at, next) ==
    /\ tasks[t].pc = at
    /\ \E out \in WriteOutcomes :
         LET asked == [tasks[t] EXCEPT !.queried = TRUE, !.fault = out.kind] IN
         tasks' = Step(t,
                     IF out.ok THEN Await(asked, next)
                     ELSE Return(asked, ErrorResponse(ErrApi(out.kind))))
    /\ UNCHANGED <<gha_enabled, upstream, backend, negative_cache, metrics, started, acked>>
    /\ UNCHANGED workerVars

put_narinfo_writer(t) == OpenWriter(t, "pn_writer", "pn_close")

\* copy(&mut stream, &mut writer).await? and writer.close().await? return: an
\* io::Error of either becomes Error::IO and leaves the key as it was; after
\* both the write is finalized and the counter incremented
put_narinfo_close(t) ==
    /\ tasks[t].pc = "pn_close"
    /\ \E out \in WriteOutcomes :
         LET asked == [tasks[t] EXCEPT !.fault = out.kind] IN
         IF out.ok
         THEN /\ backend' = Written(backend, tasks[t].key, tasks[t].body)
              /\ metrics' = Incr(metrics, {"narinfos_uploaded"})
              /\ tasks' = Step(t, Await(asked, "pn_evict"))
         ELSE /\ tasks' = Step(t, Return(asked, ErrorResponse(ErrIO)))
              /\ UNCHANGED <<backend, metrics>>
    /\ UNCHANGED <<gha_enabled, upstream, negative_cache, started, acked>>
    /\ UNCHANGED workerVars

\* mutant: Ok(()) with the hash left in the Negative Cache
put_narinfo_no_evict(t) ==
    /\ tasks[t].pc = "pn_evict"
    /\ WriteGranted(t)
    /\ tasks' = Step(t, Return(tasks[t], OkResponse(NoBody)))
    /\ acked' = Written(acked, <<"narinfo", tasks[t].key>>, tasks[t].body)
    /\ UNCHANGED <<gha_enabled, upstream, backend, metrics, started, negative_cache>>
    /\ UNCHANGED workerVars

\* the write lock is granted: remove the hash, Ok(())
put_narinfo_evict(t) ==
    /\ tasks[t].pc = "pn_evict"
    /\ WriteGranted(t)
    /\ negative_cache' = negative_cache \ {tasks[t].hash}
    /\ tasks' = Step(t, Return(tasks[t], OkResponse(NoBody)))
    /\ acked' = Written(acked, <<"narinfo", tasks[t].key>>, tasks[t].body)
    /\ UNCHANGED <<gha_enabled, upstream, backend, metrics, started>>
    /\ UNCHANGED workerVars

\* get_nar up to its await on api.reader
get_nar(t, path) ==
    /\ CanStart(t)
    /\ started' = started + 1
    /\ LET task == [Begin("get_nar", path, NoBody) EXCEPT
                        !.key = path, !.after_put = Acked("nar", path)] IN
       tasks' = Step(t,
                   IF ~gha_enabled THEN Return(task, ErrorResponse(ErrGHADisabled))
                   ELSE Await(task, "gr_reader"))
    /\ UNCHANGED <<gha_enabled, upstream, backend, negative_cache, metrics, acked>>
    /\ UNCHANGED workerVars

\* api.reader(&path).await? returns: `if let reader = ...` matches every Ok,
\* an Err leaves through `?`
get_nar_reader(t) ==
    /\ tasks[t].pc = "gr_reader"
    /\ \E out \in ReaderOutcomes(tasks[t].key) :
         LET asked == [tasks[t] EXCEPT !.queried = TRUE, !.fault = out.kind] IN
         IF out.ok
         THEN /\ metrics' = Incr(metrics, {"nars_served"})
              /\ tasks' = Step(t, Await(asked, "gr_stream"))
         ELSE /\ tasks' = Step(t, Return(asked, ErrorResponse(ErrApi(out.kind))))
              /\ UNCHANGED metrics
    /\ UNCHANGED <<gha_enabled, upstream, backend, negative_cache, started, acked>>
    /\ UNCHANGED workerVars

\* reader.into_bytes_stream(..).await? returns
get_nar_stream(t) ==
    /\ tasks[t].pc = "gr_stream"
    /\ \E out \in ReadOutcomes(tasks[t].key) :
         LET asked == [tasks[t] EXCEPT !.fault = out.kind] IN
         tasks' = Step(t,
                     IF out.ok THEN Return(asked, OkResponse(out.content))
                     ELSE Return(asked, ErrorResponse(ErrApi(out.kind))))
    /\ UNCHANGED <<gha_enabled, upstream, backend, negative_cache, metrics, started, acked>>
    /\ UNCHANGED workerVars

\* put_nar up to its first await on the Blob Backend
put_nar(t, path, body) ==
    /\ CanStart(t)
    /\ started' = started + 1
    /\ LET task == [Begin("put_nar", path, body) EXCEPT !.key = path] IN
       tasks' = Step(t,
                   IF ~gha_enabled THEN Return(task, ErrorResponse(ErrGHADisabled))
                   ELSE Await(task, "pr_writer"))
    /\ UNCHANGED <<gha_enabled, upstream, backend, negative_cache, metrics, acked>>
    /\ UNCHANGED workerVars

put_nar_writer(t) == OpenWriter(t, "pr_writer", "pr_close")

\* copy and close return, as in put_narinfo; then the counter and Ok(())
put_nar_close(t) ==
    /\ tasks[t].pc = "pr_close"
    /\ \E out \in WriteOutcomes :
         LET asked == [tasks[t] EXCEPT !.fault = out.kind] IN
         IF out.ok
         THEN /\ backend' = Written(backend, tasks[t].key, tasks[t].body)
              /\ metrics' = Incr(metrics, {"nars_uploaded"})
              /\ tasks' = Step(t, Return(asked, OkResponse(NoBody)))
              /\ acked' = Written(acked, <<"nar", tasks[t].key>>, tasks[t].body)
         ELSE /\ tasks' = Step(t, Return(asked, ErrorResponse(ErrIO)))
              /\ UNCHANGED <<backend, metrics, acked>>
    /\ UNCHANGED <<gha_enabled, upstream, negative_cache, started>>
    /\ UNCHANGED workerVars

(* ----------------------- enqueue_paths, shutdown ------------------------ *)

FreeCaller(c) == callers[c].pc \in {"idle", "done"}

\* a call is made from the first free caller slot
CanCall(c) ==
    /\ FreeCaller(c)
    /\ \A d \in Callers : d < c => ~FreeCaller(d)
    /\ calls < MaxCalls

\* caller c moves to `caller`; a call that returned in an earlier step is on
\* view for that one step
CallStep(c, caller) ==
    [d \in Callers |-> IF d = c THEN caller
                       ELSE IF callers[d].pc = "done" THEN IdleCaller
                       ELSE callers[d]]

CallReturn(caller, result) == [caller EXCEPT !.pc = "done", !.result = result]

\* mutant: the request overtakes what is queued
Send_to_front(req) ==
    /\ queue' = <<req>> \o queue
    /\ sent' = Append(sent, req)

\* channel_tx.send(req) on an open channel
Send(req) ==
    /\ queue' = Append(queue, req)
    /\ sent' = Append(sent, req)

\* GhaCache::enqueue_paths is called: it awaits the closure
enqueue_paths(c, store_paths) ==
    /\ CanCall(c)
    /\ calls' = calls + 1
    /\ callers' = CallStep(c, [IdleCaller EXCEPT !.pc = "eq_closure",
                                                !.op = "enqueue_paths",
                                                !.paths = store_paths])
    /\ UNCHANGED <<queue, rx_open, worker, done, worker_result, lock,
                   sent, attempts, runs, failed>>
    /\ UNCHANGED <<gha_enabled, upstream, backend, metrics, httpVars>>

\* store.compute_fs_closure_multi(..).await? returns
enqueue_closure(c) ==
    /\ callers[c].pc = "eq_closure"
    /\ \E ok \in BOOLEAN :
         callers' = CallStep(c,
             IF ok THEN [callers[c] EXCEPT !.pc = "eq_send",
                                           !.closure = Closure(callers[c].paths),
                                           !.todo = Closure(callers[c].paths)]
             ELSE CallReturn(callers[c], "Err(Attic)"))
    /\ UNCHANGED <<queue, rx_open, worker, done, worker_result, lock, calls,
                   sent, attempts, runs, failed>>
    /\ UNCHANGED <<gha_enabled, upstream, backend, metrics, httpVars>>

\* mutant: Ok(()) after the first send
enqueue_send_once(c) ==
    /\ callers[c].pc = "eq_send"
    /\ \E p \in callers[c].todo :
         IF rx_open
         THEN /\ Send(Upload(p))
              /\ callers' = CallStep(c, CallReturn([callers[c] EXCEPT
                                                      !.todo = @ \ {p},
                                                      !.sent = Append(@, p)], "Ok"))
         ELSE /\ callers' = CallStep(c, CallReturn(callers[c], "Err(Internal)"))
              /\ UNCHANGED <<queue, sent>>
    /\ UNCHANGED <<rx_open, worker, done, worker_result, lock, calls,
                   attempts, runs, failed>>
    /\ UNCHANGED <<gha_enabled, upstream, backend, metrics, httpVars>>

\* one turn of `for p in closure`: send Upload(p), or leave with Error::Internal
\* when the receiver is gone; Ok(()) after the last one. The order of the
\* closure is not specified.
enqueue_send(c) ==
    /\ callers[c].pc = "eq_send"
    /\ \E p \in callers[c].todo :
         IF rx_open
         THEN /\ Send(Upload(p))
              /\ LET after == [callers[c] EXCEPT !.todo = @ \ {p},
                                                 !.sent = Append(@, p)]
                 IN callers' = CallStep(c, IF after.todo = {}
                                           THEN CallReturn(after, "Ok")
                                           ELSE after)
         ELSE /\ callers' = CallStep(c, CallReturn(callers[c], "Err(Internal)"))
              /\ UNCHANGED <<queue, sent>>
    /\ UNCHANGED <<rx_open, worker, done, worker_result, lock, calls,
                   attempts, runs, failed>>
    /\ UNCHANGED <<gha_enabled, upstream, backend, metrics, httpVars>>

\* GhaCache::shutdown is called: it awaits worker_result's write lock
shutdown(c) ==
    /\ CanCall(c)
    /\ calls' = calls + 1
    /\ callers' = CallStep(c, [IdleCaller EXCEPT !.pc = "sd_lock", !.op = "shutdown"])
    /\ UNCHANGED <<queue, rx_open, worker, done, worker_result, lock,
                   sent, attempts, runs, failed>>
    /\ UNCHANGED <<gha_enabled, upstream, backend, metrics, httpVars>>

\* mutant: the guard is dropped when take() returns
shutdown_take_unlocked(c) ==
    /\ callers[c].pc = "sd_lock"
    /\ lock = 0
    /\ IF worker_result = "Some"
       THEN /\ worker_result' = "None"
            /\ IF rx_open
               THEN /\ Send(Shutdown)
                    /\ callers' = CallStep(c, [callers[c] EXCEPT !.pc = "sd_join"])
               ELSE /\ callers' = CallStep(c, CallReturn(callers[c], "Panic"))
                    /\ UNCHANGED <<queue, sent>>
       ELSE /\ callers' = CallStep(c, CallReturn(callers[c], "Ok"))
            /\ UNCHANGED <<queue, sent, worker_result>>
    /\ UNCHANGED <<rx_open, worker, done, lock, calls, attempts, runs, failed>>
    /\ UNCHANGED <<gha_enabled, upstream, backend, metrics, httpVars>>

\* the write lock is granted: take() the handle; with a handle send Shutdown and
\* await the worker, the guard staying alive; without one Ok(())
shutdown_take(c) ==
    /\ callers[c].pc = "sd_lock"
    /\ lock = 0
    /\ IF worker_result = "Some"
       THEN /\ worker_result' = "None"
            /\ IF rx_open
               THEN /\ Send(Shutdown)
                    /\ lock' = c
                    /\ callers' = CallStep(c, [callers[c] EXCEPT !.pc = "sd_join"])
               ELSE \* .expect("Cannot send shutdown message")
                    /\ callers' = CallStep(c, CallReturn(callers[c], "Panic"))
                    /\ UNCHANGED <<queue, sent, lock>>
       ELSE /\ callers' = CallStep(c, CallReturn(callers[c], "Ok"))
            /\ UNCHANGED <<queue, sent, lock, worker_result>>
    /\ UNCHANGED <<rx_open, worker, done, calls, attempts, runs, failed>>
    /\ UNCHANGED <<gha_enabled, upstream, backend, metrics, httpVars>>

\* mutant: the guard outlives the call
shutdown_join_keeps_guard(c) ==
    /\ callers[c].pc = "sd_join"
    /\ worker.pc = "stopped"
    /\ callers' = CallStep(c, CallReturn([callers[c] EXCEPT !.joined = TRUE], "Ok"))
    /\ UNCHANGED <<queue, rx_open, worker, done, worker_result, lock, calls,
                   sent, attempts, runs, failed>>
    /\ UNCHANGED <<gha_enabled, upstream, backend, metrics, httpVars>>

\* worker_result.await.unwrap() returns the worker's Ok(()); the guard is dropped
shutdown_join(c) ==
    /\ callers[c].pc = "sd_join"
    /\ worker.pc = "stopped"
    /\ lock' = 0
    /\ callers' = CallStep(c, CallReturn([callers[c] EXCEPT !.joined = TRUE], "Ok"))
    /\ UNCHANGED <<queue, rx_open, worker, done, worker_result, calls,
                   sent, attempts, runs, failed>>
    /\ UNCHANGED <<gha_enabled, upstream, backend, metrics, httpVars>>

(* ------------------------- worker, upload_path -------------------------- *)

\* mutant: Shutdown is skipped like a path already done
worker_recv_past_shutdown ==
    /\ worker.pc = "recv"
    /\ queue # <<>>
    /\ LET req == Head(queue) IN
       /\ queue' = Tail(queue)
       /\ UNCHANGED rx_open
       /\ IF req.type = "Shutdown"
          THEN UNCHANGED <<worker, done, attempts, runs>>
          ELSE /\ attempts' = Append(attempts, req.path)
               /\ IF req.path \in done
                  THEN UNCHANGED <<worker, done, runs>>
                  ELSE /\ done' = done \cup {req.path}
                       /\ runs' = [runs EXCEPT ![req.path] = @ + 1]
                       /\ worker' = [IdleWorker EXCEPT !.pc = "up_query",
                                                       !.path = req.path]
    /\ UNCHANGED <<worker_result, lock, callers, calls, sent, failed>>
    /\ UNCHANGED <<gha_enabled, upstream, backend, metrics, httpVars>>

\* mutant: `done` is not consulted
worker_recv_no_dedup ==
    /\ worker.pc = "recv"
    /\ queue # <<>>
    /\ LET req == Head(queue) IN
       IF req.type = "Shutdown"
       THEN /\ worker' = [IdleWorker EXCEPT !.pc = "stopped"]
            /\ rx_open' = FALSE
            /\ queue' = <<>>
            /\ UNCHANGED <<done, attempts, runs>>
       ELSE /\ queue' = Tail(queue)
            /\ attempts' = Append(attempts, req.path)
            /\ UNCHANGED rx_open
            /\ done' = done \cup {req.path}
            /\ runs' = [runs EXCEPT ![req.path] = @ + 1]
            /\ worker' = [IdleWorker EXCEPT !.pc = "up_query", !.path = req.path]
    /\ UNCHANGED <<worker_result, lock, callers, calls, sent, failed>>
    /\ UNCHANGED <<gha_enabled, upstream, backend, metrics, httpVars>>

\* channel_rx.recv().await returns a request: Shutdown breaks the loop and the
\* function returns Ok(()), dropping the receiver and what is still queued; an
\* Upload of a path already in `done` is skipped, another enters upload_path
worker_recv ==
    /\ worker.pc = "recv"
    /\ queue # <<>>
    /\ LET req == Head(queue) IN
       IF req.type = "Shutdown"
       THEN /\ worker' = [IdleWorker EXCEPT !.pc = "stopped"]
            /\ rx_open' = FALSE
            /\ queue' = <<>>
            /\ UNCHANGED <<done, attempts, runs>>
       ELSE /\ queue' = Tail(queue)
            /\ attempts' = Append(attempts, req.path)
            /\ UNCHANGED rx_open
            /\ IF req.path \in done
               THEN UNCHANGED <<worker, done, runs>>
               ELSE /\ done' = done \cup {req.path}
                    /\ runs' = [runs EXCEPT ![req.path] = @ + 1]
                    /\ worker' = [IdleWorker EXCEPT !.pc = "up_query", !.path = req.path]
    /\ UNCHANGED <<worker_result, lock, callers, calls, sent, failed>>
    /\ UNCHANGED <<gha_enabled, upstream, backend, metrics, httpVars>>

\* format!("{}.nar.zstd", path_info.nar_hash.to_base32())
NarPath(p) == <<PathInfo(p).nar_hash, Dot, "nar", Dot, "zstd">>

\* format!("{}.narinfo", path.to_hash())
NarinfoPath(p) == <<p, Dot, "narinfo">>

\* ZstdEncoder over the bytes read
Zstd(bytes) == <<"zstd">> \o bytes

\* fn path_info_to_nar_info
path_info_to_nar_info(path_info, url) ==
    [store_path |-> <<"/nix/store/", path_info.path>>,
     url |-> url,
     compression |-> "zstd",
     nar_hash |-> path_info.nar_hash,
     nar_size |-> path_info.nar_size,
     references |-> path_info.references]

\* NarInfo::to_string: the fields that are set, one after the other
NarInfoToString(narinfo) ==
    <<"StorePath:">> \o narinfo.store_path
    \o <<"URL:">> \o narinfo.url
    \o <<"Compression:", narinfo.compression>>
    \o <<"NarHash:", narinfo.nar_hash>>
    \o <<"References:">>
    \o [i \in 1..Cardinality(narinfo.references) |->
          PathHashes[CHOOSE k \in 1..NumPaths :
              /\ PathHashes[k] \in narinfo.references
              /\ Cardinality({j \in 1..k : PathHashes[j] \in narinfo.references}) = i]]

\* mutant: the error leaves the worker through `?`
UploadFails_stops ==
    /\ worker' = [IdleWorker EXCEPT !.pc = "stopped"]
    /\ failed' = failed \cup {worker.path}

\* upload_path returns Err through `?`: the worker logs it and takes the next request
UploadFails ==
    /\ worker' = IdleWorker
    /\ failed' = failed \cup {worker.path}

\* an await of upload_path that changes nothing but the place: it returns Ok
\* and the pipeline goes on at `next`, or Err
UploadAwait(at, next) ==
    /\ worker.pc = at
    /\ \E ok \in BOOLEAN :
         IF ok THEN /\ worker' = [worker EXCEPT !.pc = next]
                    /\ UNCHANGED failed
         ELSE UploadFails
    /\ UNCHANGED <<queue, rx_open, done, worker_result, lock, callers, calls,
                   sent, attempts, runs>>
    /\ UNCHANGED <<gha_enabled, upstream, backend, metrics, httpVars>>

\* store.query_path_info(path).await? returns
upload_query_path_info == UploadAwait("up_query", "up_alloc_nar")

\* api.allocate_file_with_random_suffix(&nar_path).await? returns
upload_allocate_nar == UploadAwait("up_alloc_nar", "up_stream")

\* nar_stream.next().await returns: a chunk is appended to `nar`, a chunk is an
\* Err, or the stream has ended and the upload of the whole of `nar` starts
upload_read_nar ==
    /\ worker.pc = "up_stream"
    /\ IF worker.next < NarChunks
       THEN \E ok \in BOOLEAN :
              IF ok THEN /\ worker' = [worker EXCEPT
                                         !.nar = @ \o NarStream(worker.path)[worker.next + 1],
                                         !.next = @ + 1]
                         /\ UNCHANGED failed
              ELSE UploadFails
       ELSE /\ worker' = [worker EXCEPT !.pc = "up_upload_nar"]
            /\ UNCHANGED failed
    /\ UNCHANGED <<queue, rx_open, done, worker_result, lock, callers, calls,
                   sent, attempts, runs>>
    /\ UNCHANGED <<gha_enabled, upstream, backend, metrics, httpVars>>

\* mutant: the result of the nar upload is dropped
upload_nar_unchecked ==
    /\ worker.pc = "up_upload_nar"
    /\ \E ok \in BOOLEAN :
         /\ IF ok THEN backend' = Written(backend, NarPath(worker.path), Zstd(worker.nar))
                  ELSE UNCHANGED backend
         /\ metrics' = Incr(metrics, {"nars_uploaded"})
         /\ worker' = [worker EXCEPT !.pc = "up_alloc_narinfo"]
         /\ UNCHANGED failed
    /\ UNCHANGED <<queue, rx_open, done, worker_result, lock, callers, calls,
                   sent, attempts, runs>>
    /\ UNCHANGED <<gha_enabled, upstream, httpVars>>

\* api.upload_file(nar_allocation, reader).await? returns; nars_uploaded.incr()
upload_nar ==
    /\ worker.pc = "up_upload_nar"
    /\ \E ok \in BOOLEAN :
         IF ok THEN /\ backend' = Written(backend, NarPath(worker.path), Zstd(worker.nar))
                    /\ metrics' = Incr(metrics, {"nars_uploaded"})
                    /\ worker' = [worker EXCEPT !.pc = "up_alloc_narinfo"]
                    /\ UNCHANGED failed
         ELSE /\ UploadFails
              /\ UNCHANGED <<backend, metrics>>
    /\ UNCHANGED <<queue, rx_open, done, worker_result, lock, callers, calls,
                   sent, attempts, runs>>
    /\ UNCHANGED <<gha_enabled, upstream, httpVars>>

\* api.allocate_file_with_random_suffix(&narinfo_path).await? returns
upload_allocate_narinfo == UploadAwait("up_alloc_narinfo", "up_upload_narinfo")

\* api.upload_file(narinfo_allocation, narinfo.as_bytes()).await? returns;
\* narinfos_uploaded.incr(); Ok(())
upload_narinfo ==
    /\ worker.pc = "up_upload_narinfo"
    /\ \E ok \in BOOLEAN :
         IF ok THEN /\ backend' = Written(backend, NarinfoPath(worker.path),
                                  NarInfoToString(path_info_to_nar_info(
                                      PathInfo(worker.path),
                                      <<"nar/">> \o NarPath(worker.path))))
                    /\ metrics' = Incr(metrics, {"narinfos_uploaded"})
                    /\ worker' = IdleWorker
                    /\ UNCHANGED failed
         ELSE /\ UploadFails
              /\ UNCHANGED <<backend, metrics>>
    /\ UNCHANGED <<queue, rx_open, done, worker_result, lock, callers, calls,
                   sent, attempts, runs>>
    /\ UNCHANGED <<gha_enabled, upstream, httpVars>>

(* --------------------------- specifications ---------------------------- *)

Next ==
    \E t \in Tasks :
        \/ \E path \in Paths : get_narinfo(t, path)
        \/ get_narinfo_read(t)
        \/ get_narinfo_insert(t)
        \/ \E path \in Paths, body \in Bodies : put_narinfo(t, path, body)
        \/ put_narinfo_writer(t)
        \/ put_narinfo_close(t)
        \/ put_narinfo_evict(t)
        \/ \E path \in NarPaths : get_nar(t, path)
        \/ get_nar_reader(t)
        \/ get_nar_stream(t)
        \/ \E path \in NarPaths, body \in Bodies : put_nar(t, path, body)
        \/ put_nar_writer(t)
        \/ put_nar_close(t)

\* the protocol handlers
Spec == Init /\ [][Next]_vars

WorkerNext ==
    \/ \E c \in Callers :
          \/ \E store_paths \in SUBSET StorePaths \ {{}} : enqueue_paths(c, store_paths)
          \/ enqueue_closure(c)
          \/ enqueue_send(c)
          \/ shutdown(c)
          \/ shutdown_take(c)
          \/ shutdown_join(c)
    \/ worker_recv
    \/ upload_query_path_info
    \/ upload_allocate_nar
    \/ upload_read_nar
    \/ upload_nar
    \/ upload_allocate_narinfo
    \/ upload_narinfo

\* GhaCache::new has spawned the worker
WorkerInit == Init /\ gha_enabled

\* the replication worker with the callers of enqueue_paths and shutdown
WorkerSpec == WorkerInit /\ [][WorkerNext]_vars


\* a step of the worker task
WorkerStep ==
    \/ worker_recv
    \/ upload_query_path_info
    \/ upload_allocate_nar
    \/ upload_read_nar
    \/ upload_nar
    \/ upload_allocate_narinfo
    \/ upload_narinfo

\* the runtime polls the spawned worker whenever it can go on: a request is
\* queued or an await of its pipeline returns; the RwLock grants a waiting
\* writer the lock once it is free, and a join on a finished task returns
WorkerFairSpec ==
    /\ WorkerSpec
    /\ WF_vars(WorkerStep)
    /\ \A c \in Callers : WF_vars(shutdown_take(c)) /\ WF_vars(shutdown_join(c))

\* the narinfo routes' paths of the store paths: {hash}.narinfo
StoreNarinfoPaths == {<<p, Dot, "narinfo">> : p \in StorePaths}

\* a further request or call is accepted
OpsLeft == started + calls < MaxOps

ReplicationNext ==
    \/ \E t \in Tasks :
          \/ OpsLeft /\ \E path \in StoreNarinfoPaths : get_narinfo(t, path)
          \/ get_narinfo_read(t)
          \/ get_narinfo_insert(t)
    \/ \E c \in Callers :
          \/ OpsLeft /\ \E store_paths \in SUBSET StorePaths \ {{}} :
                            enqueue_paths(c, store_paths)
          \/ enqueue_closure(c)
          \/ enqueue_send(c)
    \/ worker_recv
    \/ upload_query_path_info
    \/ upload_allocate_nar
    \/ upload_read_nar
    \/ upload_nar
    \/ upload_allocate_narinfo
    \/ upload_narinfo

\* narinfo GETs served while the replication worker uploads the store's paths
ReplicationSpec == WorkerInit /\ [][ReplicationNext]_vars


(* ------------------------------ properties ---------------------------- *)

Done(t) == tasks[t].pc = "done"

\* the step is the entry of a handler in slot t
Entered(t) ==
    /\ Free(t)
    /\ started' = started + 1
    /\ tasks'[t].pc # "idle"

HasDot(path) == \E i \in 1..Len(path) : path[i] = Dot

\* what follows the first dot of a path that has one
AfterFirstDot(path) ==
    LET d == CHOOSE i \in 1..Len(path) :
                 /\ path[i] = Dot
                 /\ \A j \in 1..(i - 1) : path[j] # Dot
    IN [k \in 1..(Len(path) - d) |-> path[d + k]]

\* a malformed narinfo path: no dot, or a suffix other than narinfo
MalformedPath(path) == ~HasDot(path) \/ AfterFirstDot(path) # <<"narinfo">>

\* C1: when a narinfo GET that is not served by the Blob Backend returns, its
\* hash is in the Negative Cache; when a narinfo PUT returns Ok, its hash is not.
\* A returned handler is on view in the state its return step produces.
C1_NegativeCacheInvariant ==
    \A t \in Tasks :
        Done(t) =>
            /\ (/\ tasks[t].op = "get_narinfo"
                /\ ~MalformedPath(tasks[t].path)
                /\ tasks[t].resp.status # OK)
               => tasks[t].hash \in negative_cache
            /\ (/\ tasks[t].op = "put_narinfo"
                /\ tasks[t].resp.status = OK)
               => tasks[t].hash \notin negative_cache

\* a GET has just missed in the Blob Backend, after a PUT had been stored
C1_Witness ==
    \E t \in Tasks :
        /\ Done(t)
        /\ tasks[t].op = "get_narinfo"
        /\ tasks[t].queried
        /\ tasks[t].fault = "NotFound"
        /\ tasks[t].hash \in negative_cache
        /\ metrics["narinfos_uploaded"] > 0

C5_GetNarDecides ==
    \A t \in Tasks :
        (/\ Done(t)
         /\ gha_enabled
         /\ tasks[t].op = "get_nar"
         /\ tasks[t].fault \notin FailureKinds)
        => /\ (tasks[t].after_put /\ Acked("nar", tasks[t].key))
              => /\ tasks[t].resp = OkResponse(backend[tasks[t].key])
                 /\ metrics["nars_served"] > 0
           /\ (~Holds(tasks[t].key) /\ upstream # "None")
              => /\ tasks[t].resp =
                      RedirectResponse(<<upstream, "/nar/">> \o tasks[t].path)
                 /\ metrics["nars_sent_upstream"] > 0
           /\ (~Holds(tasks[t].key) /\ upstream = "None")
              => tasks[t].resp.status = NOT_FOUND

\* C6: with no upstream, a narinfo GET or nar GET whose object the Blob Backend
\* does not hold (or there is no backend) is answered Not Found, never redirected.
C6_NoUpstreamNotFound ==
    upstream = "None" =>
        \A t \in Tasks :
            (/\ Done(t)
             /\ \/ tasks[t].op = "get_nar"
                \/ tasks[t].op = "get_narinfo" /\ ~MalformedPath(tasks[t].path)
             /\ tasks[t].fault \notin FailureKinds
             /\ ~Holds(tasks[t].key))
            => tasks[t].resp.status = NOT_FOUND

Route(op) == IF op = "get_narinfo" THEN "narinfo" ELSE "nar"

\* C7: a GET entered after a PUT of the same path was answered Ok, with no
\* other content written to the key since, returns Ok with the body of the PUT.
C7_RoundTrip ==
    \A t \in Tasks :
        (/\ Done(t)
         /\ tasks[t].op \in {"get_narinfo", "get_nar"}
         /\ tasks[t].after_put
         /\ Acked(Route(tasks[t].op), tasks[t].key)
         /\ tasks[t].fault \notin FailureKinds)
        => tasks[t].resp = OkResponse(acked[<<Route(tasks[t].op), tasks[t].key>>])

\* C8: a narinfo GET entered while its hash is in the Negative Cache returns at
\* once, without a call to the Blob Backend, with the redirect to
\* {upstream}/{hash}.narinfo (Not Found without upstream); and a hash leaves the
\* Negative Cache only in the step in which a narinfo PUT for it returns Ok.
\* Together with C1 (a miss leaves the hash in the Negative Cache) this gives C8.
C8_AnsweredFromNegativeCache ==
    [][/\ \A t \in Tasks :
            (/\ Entered(t)
             /\ tasks'[t].op = "get_narinfo"
             /\ ~MalformedPath(tasks'[t].path)
             /\ tasks'[t].hash \in negative_cache)
            => /\ tasks'[t].pc = "done"
               /\ ~tasks'[t].queried
               /\ tasks'[t].resp =
                    (IF upstream # "None"
                     THEN RedirectResponse(<<upstream, "/">> \o tasks'[t].hash
                                           \o <<Dot, "narinfo">>)
                     ELSE ErrorResponse(ErrNotFound))
               /\ UNCHANGED <<backend, negative_cache>>
       /\ \A h \in negative_cache \ negative_cache' :
            \E t \in Tasks :
                /\ tasks[t].pc = "pn_evict"
                /\ tasks'[t].pc = "done"
                /\ tasks'[t].hash = h
                /\ tasks'[t].resp.status = OK]_vars

\* a second GET for a hash that missed was answered by redirect from the
\* Negative Cache, no call made
C8_Witness ==
    \E t \in Tasks :
        /\ Done(t)
        /\ tasks[t].op = "get_narinfo"
        /\ ~tasks[t].queried
        /\ gha_enabled
        /\ tasks[t].resp.status = TEMPORARY_REDIRECT
        /\ metrics["narinfos_negative_cache_hits"] > 0
        /\ metrics["narinfos_negative_cache_misses"] > 0

\* C9: a handler whose Blob Backend call failed by rate limiting answers Too
\* Many Requests, and a generic failure gets another status.
C9_RateLimitedSurfaced ==
    \A t \in Tasks :
        Done(t) =>
            /\ tasks[t].fault = "RateLimited" => tasks[t].resp.status = TOO_MANY_REQUESTS
            /\ tasks[t].fault = "Unexpected" => tasks[t].resp.status # TOO_MANY_REQUESTS


\* the place of the Shutdown request among the requests accepted, one past
\* the last when none was sent
ShutdownAt ==
    IF \E i \in 1..Len(sent) : sent[i].type = "Shutdown"
    THEN CHOOSE i \in 1..Len(sent) :
             /\ sent[i].type = "Shutdown"
             /\ \A j \in 1..(i - 1) : sent[j].type # "Shutdown"
    ELSE Len(sent) + 1

\* the paths of the Upload requests accepted ahead of Shutdown, in order
AheadOfShutdown == [i \in 1..(ShutdownAt - 1) |-> sent[i].path]

Stopped == worker.pc = "stopped"

\* C2: upload_path is entered at most once for every store path, however often
\* the path was enqueued and whether or not its pipeline failed; and once the
\* worker has stopped, exactly once for every path enqueued ahead of Shutdown.
C2_AtMostOnceUpload ==
    /\ \A p \in StorePaths : runs[p] <= 1
    /\ Stopped =>
         \A i \in 1..Len(AheadOfShutdown) : runs[AheadOfShutdown[i]] = 1

\* the worker has stopped; a path was enqueued twice ahead of Shutdown, its one
\* pipeline failed
C2_Witness ==
    /\ Stopped
    /\ \E p \in failed :
         /\ runs[p] = 1
         /\ Cardinality({i \in 1..Len(AheadOfShutdown) : AheadOfShutdown[i] = p}) >= 2

\* C3: the Upload requests the worker has attempted are, in order, an initial
\* part of those accepted ahead of Shutdown, and all of them once it has stopped.
C3_ShutdownDrainsInOrder ==
    /\ Len(attempts) <= Len(AheadOfShutdown)
    /\ \A i \in 1..Len(attempts) : attempts[i] = AheadOfShutdown[i]
    /\ Stopped => attempts = AheadOfShutdown

\* Upload(A), Upload(B), Shutdown and a later Upload were accepted; the worker
\* has stopped
C3_Witness ==
    /\ Stopped
    /\ Len(attempts) >= 2
    /\ attempts[1] # attempts[2]
    /\ Len(sent) > ShutdownAt

\* the store paths reached from ps along references
Reachable(ps) ==
    {q \in StorePaths :
        \E n \in 1..NumPaths : \E w \in [1..n -> StorePaths] :
            /\ w[1] \in ps
            /\ w[n] = q
            /\ \A i \in 1..(n - 1) : w[i + 1] \in References(w[i])}

\* C10: an enqueue_paths that returns Ok has sent one Upload for each member of
\* the closure of its paths and no other; it returns Err(Internal) only with the
\* receiver gone; and a send is never kept waiting, whatever the worker does.
C10_EnqueueSendsClosure ==
    \A c \in Callers :
        /\ (callers[c].pc = "done" /\ callers[c].op = "enqueue_paths") =>
              /\ callers[c].result = "Ok" =>
                    /\ {callers[c].sent[i] : i \in 1..Len(callers[c].sent)}
                         = Reachable(callers[c].paths)
                    /\ Len(callers[c].sent) = Cardinality(Reachable(callers[c].paths))
              /\ callers[c].result = "Err(Internal)" => ~rx_open
        /\ callers[c].pc = "eq_send" => ENABLED enqueue_send(c)

\* enqueue_paths returned Ok while a path of its closure is still queued, after
\* an earlier pipeline had failed
C10_Witness ==
    \E c \in Callers :
        /\ callers[c].pc = "done"
        /\ callers[c].op = "enqueue_paths"
        /\ callers[c].result = "Ok"
        /\ Len(callers[c].sent) >= 2
        /\ \E p \in callers[c].closure : runs[p] = 0
        /\ failed # {}

\* C11: a narinfo GET for h that read a miss from the Blob Backend and a narinfo
\* PUT for h that ran concurrently with it have both returned, the PUT with Ok:
\* h is not in the Negative Cache, in whichever order the two returned.
C11_PutGetRaceSafe ==
    \A t \in Tasks :
        Done(t) =>
            /\ (/\ tasks[t].op = "get_narinfo"
                /\ tasks[t].fault = "NotFound"
                /\ ~tasks[t].after_put
                /\ Acked("narinfo", tasks[t].key)
                /\ \A u \in Tasks \ {t} : Free(u))
               => tasks[t].hash \notin negative_cache
            /\ (/\ tasks[t].op = "put_narinfo"
                /\ tasks[t].resp.status = OK
                /\ \A u \in Tasks \ {t} : Free(u))
               => tasks[t].hash \notin negative_cache

\* no handler and no upload pipeline is in flight and nothing is queued
Quiescent ==
    /\ \A t \in Tasks : Free(t)
    /\ worker.pc \in {"recv", "stopped"}
    /\ queue = <<>>

\* C12: in every quiescent state a hash in the Negative Cache is one whose
\* {hash}.narinfo the Blob Backend does not hold: a write of {hash}.narinfo that
\* succeeded, by the upload pipeline as by a PUT, has evicted the entry.
C12_EvictedOnEveryWrite ==
    Quiescent => \A h \in negative_cache : ~Holds(NarinfoKey(h))

\* C13: a step in which an upload pipeline fails leaves the worker receiving,
\* with the queue, the channel, the join handle and every caller as they were;
\* the worker stops only after a Shutdown request was accepted, having by then
\* attempted every Upload accepted ahead of it; an enqueue_paths reports
\* Err(Internal) only after Shutdown; and a shutdown that returns returns Ok.
C13_FailureIsolated ==
    /\ [][failed' # failed =>
            /\ worker' = IdleWorker
            /\ UNCHANGED <<queue, rx_open, done, worker_result, lock, callers>>]_vars
    /\ [](Stopped =>
            /\ ShutdownAt <= Len(sent)
            /\ \A i \in 1..Len(AheadOfShutdown) : AheadOfShutdown[i] \in done)
    /\ [](\A c \in Callers :
            callers[c].pc = "done" =>
                /\ callers[c].op = "shutdown" => callers[c].result = "Ok"
                /\ (callers[c].op = "enqueue_paths" /\ callers[c].result # "Ok") =>
                      \/ callers[c].result = "Err(Attic)" /\ callers[c].sent = <<>>
                      \/ callers[c].result = "Err(Internal)" /\ ShutdownAt <= Len(sent))

\* shutdown has just returned Ok; a pipeline had failed and the pipeline of a
\* path received after it stored its narinfo
C13_Witness ==
    /\ Stopped
    /\ \E c \in Callers :
         /\ callers[c].pc = "done"
         /\ callers[c].op = "shutdown"
         /\ callers[c].result = "Ok"
    /\ \E i, j \in 1..Len(attempts) :
         /\ i < j
         /\ attempts[i] \in failed
         /\ attempts[j] \notin failed
         /\ Holds(NarinfoPath(attempts[j]))

\* C14: a stopped worker stays stopped and starts no pipeline: from then on the
\* attempts, the runs, `done`, the Blob Backend and the counters stay as they
\* are; the channel is closed and what was queued is dropped; and at no time
\* has the worker received an Upload accepted behind the Shutdown request.
C14_StoppedForGood ==
    /\ [][Stopped =>
            /\ Stopped'
            /\ UNCHANGED <<attempts, runs, done, backend, metrics, queue, rx_open>>]_vars
    /\ [](Stopped => queue = <<>> /\ ~rx_open)
    /\ [](Len(attempts) < ShutdownAt)

\* the worker has stopped; an Upload of a path that never ran was accepted
\* behind Shutdown, and a call was made after the stop
C14_Witness ==
    /\ Stopped
    /\ \E i \in (ShutdownAt + 1)..Len(sent) :
         /\ sent[i].type = "Upload"
         /\ runs[sent[i].path] = 0
    /\ \E c \in Callers : callers[c].pc = "done" /\ callers[c].result = "Err(Internal)"

\* the Shutdown requests among those the channel accepted
ShutdownsSent == Cardinality({i \in 1..Len(sent) : sent[i].type = "Shutdown"})

\* C15: at most one Shutdown request is ever sent and at most one caller awaits
\* the join handle, the one that took it; the handle is taken once and never
\* put back; and every shutdown call that returns, the one that joined as one
\* that found the handle taken, returns Ok with exactly one Shutdown sent and
\* the worker stopped.
C15_ShutdownJoinsOnce ==
    /\ [](ShutdownsSent <= 1)
    /\ [](Cardinality({c \in Callers : callers[c].pc = "sd_join"}) <= 1)
    /\ [](\A c \in Callers : callers[c].pc = "sd_join" => lock = c /\ worker_result = "None")
    /\ [][/\ worker_result = "None" => worker_result' = "None"
          /\ \A c \in Callers :
               (callers[c].pc # "sd_join" /\ callers'[c].pc = "sd_join")
               => worker_result = "Some" /\ ShutdownsSent = 0]_vars
    /\ [](\A c \in Callers :
            (callers[c].pc = "done" /\ callers[c].op = "shutdown") =>
                /\ callers[c].result = "Ok"
                /\ ShutdownsSent = 1
                /\ worker_result = "None"
                /\ Stopped)

\* a shutdown call that waited for the lock while another caller was joining
\* the worker has returned Ok without joining; uploads had been attempted
C15_Witness ==
    /\ \E c \in Callers :
         /\ callers[c].pc = "done"
         /\ callers[c].op = "shutdown"
         /\ ~callers[c].joined
         /\ callers[c].result = "Ok"
    /\ Len(attempts) > 0

\* C16: a shutdown call that is waiting for the lock or for the join eventually
\* returns, with the worker stopped, whatever other callers enqueue meanwhile.
C16_ShutdownTerminates ==
    \A c \in Callers :
        (callers[c].op = "shutdown" /\ callers[c].pc \in {"sd_lock", "sd_join"})
        ~> (callers[c].pc = "done" /\ callers[c].result = "Ok" /\ Stopped)

\* the shutdown call that joined the worker has returned; the worker had two
\* uploads to attempt first and an Upload was accepted behind Shutdown
C16_Witness ==
    /\ \E c \in Callers :
         /\ callers[c].pc = "done"
         /\ callers[c].op = "shutdown"
         /\ callers[c].joined
    /\ Len(attempts) >= 2
    /\ Len(sent) > ShutdownAt

\* the places where a handler awaits a Blob Backend operation
NetworkAwaits ==
    {"gn_read", "pn_writer", "pn_close", "gr_reader", "gr_stream", "pr_writer", "pr_close"}

\* C17: a handler that awaits a Blob Backend operation holds no guard of the
\* Negative Cache lock, so that a narinfo GET accepted meanwhile gets its read
\* of the Negative Cache at once; and the Negative Cache changes only in the
\* last step of a narinfo GET whose backend read has returned (or that has no
\* backend) or of a narinfo PUT whose write has been finalized.
C17_NoLockAcrossNetwork ==
    /\ [](\A t \in Tasks :
            tasks[t].pc \in NetworkAwaits =>
                /\ tasks[t].guard = "none"
                /\ \A u \in Tasks :
                     CanStart(u) => ENABLED get_narinfo(u, <<"a", Dot, "narinfo">>))
    /\ [][negative_cache' # negative_cache =>
            \E t \in Tasks :
                /\ tasks'[t].pc = "done"
                /\ tasks'[t].guard = "none"
                /\ \/ tasks[t].pc = "gn_insert" /\ (tasks[t].queried \/ ~gha_enabled)
                   \/ tasks[t].pc = "pn_evict" /\ Holds(tasks[t].key)]_vars

\* while a narinfo PUT awaits the finalization of its write, a narinfo GET has
\* been answered from the Negative Cache
C17_Witness ==
    \E t, u \in Tasks :
        /\ tasks[t].pc = "pn_close"
        /\ Done(u)
        /\ tasks[u].op = "get_narinfo"
        /\ ~tasks[u].queried
        /\ tasks[u].hash \in negative_cache

\* C18: whenever no upload pipeline is in flight the nars-uploaded and the
\* narinfos-uploaded counters are equal: a pipeline increments both at its end
\* or neither.
C18_CountersTogether ==
    worker.pc \in {"recv", "stopped"} =>
        metrics["nars_uploaded"] = metrics["narinfos_uploaded"]

\* the first occurrence of token in content
IndexOf(content, token) ==
    CHOOSE i \in 1..Len(content) :
        /\ content[i] = token
        /\ \A j \in 1..(i - 1) : content[j] # token

\* the value of the URL field of a serialized narinfo
UrlOf(content) ==
    SubSeq(content, IndexOf(content, "URL:") + 1, IndexOf(content, "Compression:") - 1)

\* the first n chunks of a stream, one after the other
RECURSIVE Concat(_, _)
Concat(chunks, n) == IF n = 0 THEN <<>> ELSE Concat(chunks, n - 1) \o chunks[n]

\* C19: a {hash}.narinfo the Blob Backend holds has a URL "nar/" followed by a
\* key the backend holds, with the compressed payload of that store path; and
\* the step that first writes the narinfo of a path is a step of that path's
\* pipeline taken with the payload already stored.
C19_NarinfoAfterNar ==
    /\ [](\A p \in StorePaths :
            Holds(<<p, Dot, "narinfo">>) =>
                LET url == UrlOf(backend[<<p, Dot, "narinfo">>]) IN
                /\ Len(url) > 1
                /\ Head(url) = "nar/"
                /\ Holds(Tail(url))
                /\ backend[Tail(url)] =
                     <<"zstd">> \o Concat(NarStream(p), Len(NarStream(p))))
    /\ [][\A p \in StorePaths :
            (~Holds(<<p, Dot, "narinfo">>) /\ <<p, Dot, "narinfo">> \in DOMAIN backend')
            => /\ worker.path = p
               /\ \E key \in DOMAIN backend : <<"nar/">> \o key
                                               = UrlOf(backend'[<<p, Dot, "narinfo">>])]_vars

\* the narinfo of one path is stored; the payload upload of another path
\* failed and neither its payload nor its narinfo is there
C19_Witness ==
    /\ \E p \in StorePaths : Holds(<<p, Dot, "narinfo">>)
    /\ \E q \in failed :
         /\ ~Holds(NarPath(q))
         /\ ~Holds(<<q, Dot, "narinfo">>)
         /\ Len(worker.nar) = 0
         /\ metrics["nars_uploaded"] = 1

\* C20: the worker never holds more of a payload in memory than one chunk of
\* its stream, however many chunks the payload has.
C20_PayloadStreamed ==
    worker.path \in StorePaths =>
        Len(worker.nar) <= Len(NarStream(worker.path)[1])

====
